---- MODULE Spec2Model ----
(***************************************************************************)
(* arkouda/array_api/_io.py: read_hdf5 and lshdf, two forwarders to the    *)
(* messaging client generic_msg.  The collaborators (generic_msg,          *)
(* create_pdarray, the standard output) are the environment: their calls    *)
(* are logged, their replies and failures are chosen nondeterministically. *)
(* Strings the code builds (the command) are sequences of characters;      *)
(* strings it only passes on (file names, dataset names, replies) are      *)
(* opaque values.                                                          *)
(***************************************************************************)
EXTENDS Integers, Sequences, FiniteSets, TLC

\* ---------------------------------------------------------------- bounds
\* The largest rank a call is given: a rank of two decimal digits.
MaxRank == 10

Filenames == {"", "data.h5"}
Datasets == {"", "temps"}
\* A negative rank, zero, the ranks 1 and 2, and a rank of two digits.
Ranks == {0 - 1, 0, 1, 2, MaxRank}
\* What generic_msg may answer, and what a collaborator may raise.
Replies == {"created id_1 int64 2", "created id_2 float64 2"}
Failures == {"RuntimeError", "ValueError"}
\* What create_pdarray may return: an opaque pdarray object.
Handles == {[pdarray |-> "id_1"], [pdarray |-> "id_2"]}

\* A local variable that is not bound yet.
Unbound == "<unbound>"
NoHandle == [pdarray |-> "<unbound>"]
NoOutcome == [kind |-> "none"]
NoCall == [fn |-> "none"]

VARIABLES
    pc,         \* where the running call stands
    fn,         \* the function called: "read_hdf5", "lshdf" ("none" before the first call)
    params,     \* the arguments of the call
    repMsg,     \* the local repMsg
    pda,        \* the value create_pdarray returned
    requests,   \* the calls of generic_msg made by this call, in order
    ctorCalls,  \* the arguments create_pdarray was called with by this call, in order
    stdout,     \* what this call wrote to the standard output, in order
    raised,     \* the failure a collaborator raised in this call, if one did
    outcome,    \* how the call ended: a returned value or a raised failure
    prev        \* the previous call: its arguments, requests, replies and outcome

vars == <<pc, fn, params, repMsg, pda, requests, ctorCalls, stdout, raised, outcome, prev>>

\* ------------------------------------------------------- pure functions
Digit(d) == <<"0", "1", "2", "3", "4", "5", "6", "7", "8", "9">>[d + 1]

\* str(n) for n >= 0: the decimal digits, most significant first.
RECURSIVE NatStr(_)
NatStr(n) == IF n < 10 THEN <<Digit(n)>> ELSE NatStr(n \div 10) \o <<Digit(n % 10)>>

\* format(rank, "") of an int: str(rank).
IntStr(n) == IF n < 0 THEN <<"-">> \o NatStr(0 - n) ELSE NatStr(n)

ReadCmdPrefix ==
    <<"r", "e", "a", "d", "S", "i", "n", "g", "l", "e", "H", "d", "f", "A", "r", "r", "a", "y">>

\* A command built from the last digit of the rank alone.
ReadCmdOneDigit(rank) == ReadCmdPrefix \o <<Digit(rank % 10)>> \o <<"D">>

\* f"readSingleHdfArray{rank}D"
ReadCmd(rank) == ReadCmdPrefix \o IntStr(rank) \o <<"D">>

\* The two values under each other's key.
ReadArgsSwapped(filename, dataset) == [dset |-> filename, filename |-> dataset]

\* {"dset": dataset, "filename": filename}
ReadArgs(filename, dataset) == [dset |-> dataset, filename |-> filename]

\* "lshdf"
LshdfCmd == <<"l", "s", "h", "d", "f">>

\* {"filename": filename}
LshdfArgs(filename) == [filename |-> filename]

\* Array._new(x): an Array object holding x.
ArrayNew(x) == [_array |-> x]

\* print(x): sys.stdout.write(str(x)) and then sys.stdout.write("\n");
\* repMsg is a str, and str() of a str is that str.
PrintWrites(x) == <<x, "\n">>

\* The finished call, as the next call finds it.
Summary ==
    IF fn = "none" THEN NoCall
    ELSE [fn |-> fn, params |-> params, requests |-> requests, repMsg |-> repMsg,
          pda |-> pda, raised |-> raised, stdout |-> stdout, outcome |-> outcome]

\* ------------------------------------------------------------- actions
Init ==
    /\ pc = "idle"
    /\ fn = "none"
    /\ params = [filename |-> ""]
    /\ repMsg = Unbound
    /\ pda = NoHandle
    /\ requests = << >>
    /\ ctorCalls = << >>
    /\ stdout = << >>
    /\ raised = Unbound
    /\ outcome = NoOutcome
    /\ prev = NoCall

\* A call starts when no call is running; the previous call is over.
Enter(f, p) ==
    /\ pc \in {"idle", "done"}
    /\ prev' = Summary
    /\ fn' = f
    /\ params' = p
    /\ repMsg' = Unbound
    /\ pda' = NoHandle
    /\ ctorCalls' = << >>
    /\ stdout' = << >>
    /\ raised' = Unbound
    /\ outcome' = NoOutcome

\* A rank below 1 rejected by read_hdf5 itself, before any request is made.
ReadHdf5CallValidated(filename, dataset, rank) ==
    /\ pc \in {"idle", "done"}
    /\ prev' = Summary
    /\ fn' = "read_hdf5"
    /\ params' = [filename |-> filename, dataset |-> dataset, rank |-> rank]
    /\ repMsg' = Unbound
    /\ pda' = NoHandle
    /\ ctorCalls' = << >>
    /\ stdout' = << >>
    /\ raised' = Unbound
    /\ IF rank >= 1
       THEN /\ requests' = << [cmd |-> ReadCmd(rank), args |-> ReadArgs(filename, dataset)] >>
            /\ outcome' = NoOutcome
            /\ pc' = "read_generic_msg"
       ELSE /\ requests' = << >>
            /\ outcome' = [kind |-> "raise", value |-> "ValueError", origin |-> "read_hdf5"]
            /\ pc' = "done"

\* read_hdf5(filename, dataset, rank): up to the call of generic_msg.
ReadHdf5Call(filename, dataset, rank) ==
    /\ Enter("read_hdf5", [filename |-> filename, dataset |-> dataset, rank |-> rank])
    /\ requests' = << [cmd |-> ReadCmd(rank), args |-> ReadArgs(filename, dataset)] >>
    /\ pc' = "read_generic_msg"

\* generic_msg returns: repMsg = generic_msg(...)
ReadHdf5MsgReply(r) ==
    /\ pc = "read_generic_msg"
    /\ repMsg' = r
    /\ pc' = "read_print"
    /\ UNCHANGED <<fn, params, pda, requests, ctorCalls, stdout, outcome, prev, raised>>

\* The failure of generic_msg caught, and an empty Array returned.
ReadHdf5MsgRaiseCaught(e) ==
    /\ pc = "read_generic_msg"
    /\ raised' = e
    /\ outcome' = [kind |-> "return", value |-> ArrayNew(NoHandle)]
    /\ pc' = "done"
    /\ UNCHANGED <<fn, params, repMsg, pda, requests, ctorCalls, stdout, prev>>

\* generic_msg raises: nothing catches it.
ReadHdf5MsgRaise(e) ==
    /\ pc = "read_generic_msg"
    /\ raised' = e
    /\ outcome' = [kind |-> "raise", value |-> e, origin |-> "generic_msg"]
    /\ pc' = "done"
    /\ UNCHANGED <<fn, params, repMsg, pda, requests, ctorCalls, stdout, prev>>

\* The print left out (or gated by a log level that is off).
ReadHdf5PrintGated ==
    /\ pc = "read_print"
    /\ pc' = "read_create"
    /\ UNCHANGED <<fn, params, repMsg, pda, requests, ctorCalls, stdout, outcome, prev, raised>>

\* print(repMsg)
ReadHdf5Print ==
    /\ pc = "read_print"
    /\ stdout' = stdout \o PrintWrites(repMsg)
    /\ pc' = "read_create"
    /\ UNCHANGED <<fn, params, repMsg, pda, requests, ctorCalls, outcome, prev, raised>>

\* create_pdarray called once for the check and once more for the value.
ReadHdf5CreateCallTwice ==
    /\ pc = "read_create"
    /\ ctorCalls' = ctorCalls \o <<repMsg, repMsg>>
    /\ pc' = "read_create_pdarray"
    /\ UNCHANGED <<fn, params, repMsg, pda, requests, stdout, outcome, prev, raised>>

\* create_pdarray(repMsg) is called.
ReadHdf5CreateCall ==
    /\ pc = "read_create"
    /\ ctorCalls' = Append(ctorCalls, repMsg)
    /\ pc' = "read_create_pdarray"
    /\ UNCHANGED <<fn, params, repMsg, pda, requests, stdout, outcome, prev, raised>>

\* The pdarray returned as it is, not made into an Array.
ReadHdf5ReturnUnwrapped(h) ==
    /\ pc = "read_create_pdarray"
    /\ pda' = h
    /\ outcome' = [kind |-> "return", value |-> h]
    /\ pc' = "done"
    /\ UNCHANGED <<fn, params, repMsg, requests, ctorCalls, stdout, prev, raised>>

\* create_pdarray returns h: return Array._new(h)
ReadHdf5Return(h) ==
    /\ pc = "read_create_pdarray"
    /\ pda' = h
    /\ outcome' = [kind |-> "return", value |-> ArrayNew(h)]
    /\ pc' = "done"
    /\ UNCHANGED <<fn, params, repMsg, requests, ctorCalls, stdout, prev, raised>>

\* create_pdarray raises: nothing catches it.
ReadHdf5CreateRaise(e) ==
    /\ pc = "read_create_pdarray"
    /\ raised' = e
    /\ outcome' = [kind |-> "raise", value |-> e, origin |-> "create_pdarray"]
    /\ pc' = "done"
    /\ UNCHANGED <<fn, params, repMsg, pda, requests, ctorCalls, stdout, prev>>

\* A file name remembered from the previous call and used when none is given.
LshdfCallRemembering(filename) ==
    /\ Enter("lshdf", [filename |-> filename])
    /\ requests' = << [cmd |-> LshdfCmd,
                       args |-> LshdfArgs(IF filename = "" /\ prev # NoCall
                                          THEN prev.params.filename ELSE filename)] >>
    /\ pc' = "lshdf_generic_msg"

\* lshdf(filename): up to the call of generic_msg.
LshdfCall(filename) ==
    /\ Enter("lshdf", [filename |-> filename])
    /\ requests' = << [cmd |-> LshdfCmd, args |-> LshdfArgs(filename)] >>
    /\ pc' = "lshdf_generic_msg"

\* The reply printed as read_hdf5 prints it.
LshdfReturnPrinting(r) ==
    /\ pc = "lshdf_generic_msg"
    /\ repMsg' = r
    /\ stdout' = stdout \o PrintWrites(r)
    /\ outcome' = [kind |-> "return", value |-> r]
    /\ pc' = "done"
    /\ UNCHANGED <<fn, params, pda, requests, ctorCalls, prev, raised>>

\* The return statement left out: the call returns None.
LshdfReturnNone(r) ==
    /\ pc = "lshdf_generic_msg"
    /\ repMsg' = r
    /\ outcome' = [kind |-> "return", value |-> "None"]
    /\ pc' = "done"
    /\ UNCHANGED <<fn, params, pda, requests, ctorCalls, stdout, prev, raised>>

\* generic_msg returns: repMsg = generic_msg(...); return repMsg
LshdfReturn(r) ==
    /\ pc = "lshdf_generic_msg"
    /\ repMsg' = r
    /\ outcome' = [kind |-> "return", value |-> r]
    /\ pc' = "done"
    /\ UNCHANGED <<fn, params, pda, requests, ctorCalls, stdout, prev, raised>>

\* generic_msg raises: nothing catches it.
LshdfMsgRaise(e) ==
    /\ pc = "lshdf_generic_msg"
    /\ raised' = e
    /\ outcome' = [kind |-> "raise", value |-> e, origin |-> "generic_msg"]
    /\ pc' = "done"
    /\ UNCHANGED <<fn, params, repMsg, pda, requests, ctorCalls, stdout, prev>>

Next ==
    \/ \E filename \in Filenames, dataset \in Datasets, rank \in Ranks :
           ReadHdf5Call(filename, dataset, rank)
    \/ \E r \in Replies : ReadHdf5MsgReply(r)
    \/ \E e \in Failures : ReadHdf5MsgRaise(e)
    \/ ReadHdf5Print
    \/ ReadHdf5CreateCall
    \/ \E h \in Handles : ReadHdf5Return(h)
    \/ \E e \in Failures : ReadHdf5CreateRaise(e)
    \/ \E filename \in Filenames : LshdfCall(filename)
    \/ \E r \in Replies : LshdfReturn(r)
    \/ \E e \in Failures : LshdfMsgRaise(e)

Spec == Init /\ [][Next]_vars

\* -------------------------------------------------------------- claims
\* Reading a decimal numeral, independently of how the code writes one.
DecimalDigits == <<"0", "1", "2", "3", "4", "5", "6", "7", "8", "9">>
IsDigit(c) == \E i \in 1..Len(DecimalDigits) : DecimalDigits[i] = c
DigitValue(c) == (CHOOSE i \in 1..Len(DecimalDigits) : DecimalDigits[i] = c) - 1

RECURSIVE DecimalValue(_)
DecimalValue(s) ==
    IF s = << >> THEN 0
    ELSE DecimalValue(SubSeq(s, 1, Len(s) - 1)) * Len(DecimalDigits) + DigitValue(s[Len(s)])

\* s is the decimal representation of the positive integer n.
IsDecimalOf(s, n) ==
    /\ Len(s) >= 1
    /\ \A i \in 1..Len(s) : IsDigit(s[i])
    /\ s[1] # "0"
    /\ DecimalValue(s) = n

\* s is the decimal representation of the integer n, with its sign.
IsSignedDecimalOf(s, n) ==
    IF n > 0 THEN IsDecimalOf(s, n)
    ELSE IF n = 0 THEN s = <<"0">>
    ELSE Len(s) >= 2 /\ s[1] = "-" /\ IsDecimalOf(SubSeq(s, 2, Len(s)), 0 - n)

\* c is "readSingleHdfArray", a numeral and "D"; Numeral(c) is the numeral.
HasReadCmdShape(c) ==
    /\ Len(c) >= Len(ReadCmdPrefix) + 2
    /\ SubSeq(c, 1, Len(ReadCmdPrefix)) =
           <<"r", "e", "a", "d", "S", "i", "n", "g", "l", "e",
             "H", "d", "f", "A", "r", "r", "a", "y">>
    /\ c[Len(c)] = "D"
Numeral(c) == SubSeq(c, Len(ReadCmdPrefix) + 1, Len(c) - 1)

ReadRunning == fn = "read_hdf5"
LshdfRunning == fn = "lshdf"
Returned == pc = "done" /\ outcome.kind = "return"
Raised == pc = "done" /\ outcome.kind = "raise"

\* C1: for every rank >= 1, read_hdf5 submits exactly one command, and it is
\* "readSingleHdfArray", then the decimal representation of rank, then "D";
\* rank 2 gives "readSingleHdfArray2D".
C1_ReadCommand ==
    (ReadRunning /\ params.rank >= 1) =>
        /\ Len(requests) = 1
        /\ HasReadCmdShape(requests[1].cmd)
        /\ IsDecimalOf(Numeral(requests[1].cmd), params.rank)
        /\ params.rank = 2 =>
               requests[1].cmd =
                   <<"r", "e", "a", "d", "S", "i", "n", "g", "l", "e",
                     "H", "d", "f", "A", "r", "r", "a", "y", "2", "D">>

\* A read of a two-digit rank has returned.
C1_Witness ==
    ReadRunning /\ Returned /\ params.rank = MaxRank /\ Len(Numeral(requests[1].cmd)) = 2

\* C2: read_hdf5 submits an argument mapping with exactly the keys "dset" and
\* "filename", holding the dataset and the filename it was given.
C2_ReadArgs ==
    ReadRunning =>
        /\ Len(requests) = 1
        /\ DOMAIN requests[1].args = {"dset", "filename"}
        /\ requests[1].args["dset"] = params.dataset
        /\ requests[1].args["filename"] = params.filename

\* A read of dataset "temps" of file "data.h5" has submitted its request.
C2_Witness ==
    /\ ReadRunning
    /\ params.filename = "data.h5" /\ params.dataset = "temps"
    /\ requests[1].args = [dset |-> "temps", filename |-> "data.h5"]

\* C3 as stated: the value read_hdf5 returns is the value create_pdarray
\* returned, not wrapped.
C3_ReturnsCtorValue ==
    (ReadRunning /\ Returned) => outcome.value = pda

\* C3, amended: the value read_hdf5 returns is the Array that Array._new makes
\* of the value create_pdarray returned for the raw reply.
C3_ReturnsArrayOfCtorValue ==
    (ReadRunning /\ Returned) =>
        /\ pda \in Handles
        /\ ctorCalls = <<repMsg>>
        /\ outcome.value = [_array |-> pda]

\* A read has returned the Array of the pdarray id_2, made for the first reply.
C3_Witness ==
    /\ ReadRunning /\ Returned
    /\ repMsg = "created id_1 int64 2"
    /\ pda = [pdarray |-> "id_2"]

\* C4: lshdf submits the command "lshdf" with the arguments
\* {"filename": filename}, and returns the reply of generic_msg as it is.
C4_Lshdf ==
    LshdfRunning =>
        /\ requests = << [cmd |-> <<"l", "s", "h", "d", "f">>,
                          args |-> [filename |-> params.filename]] >>
        /\ Returned => (repMsg \in Replies /\ outcome.value = repMsg)

\* lshdf("data.h5") has returned the second reply.
C4_Witness ==
    /\ LshdfRunning /\ Returned
    /\ params.filename = "data.h5"
    /\ outcome.value = "created id_2 float64 2"

\* C5: a failure raised by generic_msg or by create_pdarray ends the call in
\* that same failure: no value is returned, no second request is made, and
\* after a failure of generic_msg read_hdf5 has neither printed nor called
\* create_pdarray.
C5_FailurePropagates ==
    (raised # Unbound) =>
        /\ pc = "done"
        /\ outcome.kind = "raise"
        /\ outcome.value = raised
        /\ Len(requests) = 1
        /\ outcome.origin = "generic_msg" =>
               (repMsg = Unbound /\ stdout = << >> /\ ctorCalls = << >>)
        /\ outcome.origin = "create_pdarray" => (ReadRunning /\ Len(ctorCalls) = 1)

\* generic_msg has raised ValueError in read_hdf5, and the call ended in it.
C5_Witness ==
    /\ ReadRunning /\ Raised
    /\ raised = "ValueError"
    /\ outcome.origin = "generic_msg"

\* C6: read_hdf5 calls create_pdarray only after generic_msg has returned, with
\* the reply as the argument; a read that returned made exactly one request
\* and exactly one call of create_pdarray.
C6_OneRequestThenOneCtorCall ==
    ReadRunning =>
        /\ Len(requests) = 1
        /\ repMsg = Unbound => ctorCalls = << >>
        /\ ctorCalls # << >> => ctorCalls = <<repMsg>>
        /\ Returned => (repMsg \in Replies /\ ctorCalls = <<repMsg>>)

\* read_hdf5("data.h5", "temps", 2) has returned.
C6_Witness ==
    /\ ReadRunning /\ Returned
    /\ params = [filename |-> "data.h5", dataset |-> "temps", rank |-> 2]
    /\ ctorCalls = <<repMsg>>

\* C7: read_hdf5 writes the reply to the standard output once, as one line:
\* nothing is written before generic_msg has returned, the line is written
\* before create_pdarray is called, and it is there when the call ends after
\* a reply, also when create_pdarray raised.
C7_PrintsReplyOnce ==
    ReadRunning =>
        /\ (repMsg = Unbound \/ pc = "read_print") => (stdout = << >> /\ ctorCalls = << >>)
        /\ (ctorCalls # << >> \/ (pc = "done" /\ repMsg # Unbound)) =>
               stdout = <<repMsg, "\n">>

\* create_pdarray has raised, and the reply is on the standard output.
C7_Witness ==
    /\ ReadRunning /\ Raised
    /\ outcome.origin = "create_pdarray"
    /\ stdout = <<"created id_1 int64 2", "\n">>

\* C8: no input is rejected locally: a call may start with any file name,
\* dataset name and rank, every call has made its one request (the rank
\* written into the command as given, with its sign), and every failure
\* comes from a collaborator.
C8_NoLocalValidation ==
    /\ pc \in {"idle", "done"} =>
           /\ \A f \in Filenames, d \in Datasets, r \in Ranks : ENABLED ReadHdf5Call(f, d, r)
           /\ \A f \in Filenames : ENABLED LshdfCall(f)
    /\ fn # "none" =>
           /\ Len(requests) = 1
           /\ requests[1].args["filename"] = params.filename
           /\ outcome.kind = "raise" => outcome.origin \in {"generic_msg", "create_pdarray"}
    /\ ReadRunning =>
           /\ HasReadCmdShape(requests[1].cmd)
           /\ IsSignedDecimalOf(Numeral(requests[1].cmd), params.rank)

\* read_hdf5("", "", -1) has made its request, "readSingleHdfArray-1D".
C8_Witness ==
    /\ ReadRunning
    /\ params = [filename |-> "", dataset |-> "", rank |-> 0 - 1]
    /\ Len(requests) = 1
    /\ Numeral(requests[1].cmd) = <<"-", "1">>

\* C9: lshdf makes one request and nothing else: it does not call
\* create_pdarray, writes nothing, and is over as soon as generic_msg answers.
C9_LshdfFrame ==
    LshdfRunning =>
        /\ Len(requests) = 1
        /\ ctorCalls = << >>
        /\ stdout = << >>
        /\ pda = NoHandle
        /\ pc \in {"lshdf_generic_msg", "done"}
        /\ (repMsg # Unbound \/ raised # Unbound) => pc = "done"

\* lshdf has returned after a read_hdf5 that printed.
C9_Witness ==
    /\ LshdfRunning /\ Returned
    /\ prev.fn = "read_hdf5"
    /\ prev.stdout # << >>

\* What the collaborators answered in a call.
Answers(call) == <<call.repMsg, call.pda, call.raised>>

====
